---------------------------- MODULE Spec2Model ----------------------------
(***************************************************************************)
(* The PII detection and masking engine of app/services/pii_masking.py,    *)
(* with the session store of app/core/cache.py.                            *)
(*                                                                         *)
(* A text is a sequence of one-character strings.  Offsets are Python's:   *)
(* 0-based, half-open [start_pos, end_pos).                                *)
(***************************************************************************)
EXTENDS Integers, Sequences, FiniteSets, TLC

(***************************************************************************)
(* Characters and the character classes the patterns use.                  *)
(***************************************************************************)
UpperSeq == <<"A","B","C","D","E","F","G","H","I","J","K","L","M","N","O","P","Q","R","S","T","U","V","W","X","Y","Z">>
LowerSeq == <<"a","b","c","d","e","f","g","h","i","j","k","l","m","n","o","p","q","r","s","t","u","v","w","x","y","z">>
DigitSeq == <<"0","1","2","3","4","5","6","7","8","9">>

Uppers == {UpperSeq[k] : k \in 1..Len(UpperSeq)}
Lowers == {LowerSeq[k] : k \in 1..Len(LowerSeq)}
Digits == {DigitSeq[k] : k \in 1..Len(DigitSeq)}
Letters == Uppers \cup Lowers

\* \w, \s of Python's re on the characters the model's texts are written in
WordChars == Letters \cup Digits \cup {"_"}
SpaceChars == {" "}
\* [-\s]
SepChars == {"-"} \cup SpaceChars
\* [6-9]
PhoneLead == {"6","7","8","9"}
\* [A-Za-z0-9._%+-]
EmailLocalChars == Letters \cup Digits \cup {".","_","%","+","-"}
\* [A-Za-z0-9.-]
EmailDomainChars == Letters \cup Digits \cup {".","-"}
\* [A-Z|a-z]
EmailTldChars == Letters \cup {"|"}
\* the argument of str.strip in detect_indian_names
StripChars == {".",",","!","?",";",":"}

NoMatch == -1

\* str.lower on one character
LowerMap == [c \in Uppers |-> LowerSeq[CHOOSE k \in 1..Len(UpperSeq) : UpperSeq[k] = c]]
UpperMap == [c \in Lowers |-> UpperSeq[CHOOSE k \in 1..Len(LowerSeq) : LowerSeq[k] = c]]
LowerChar(c) == IF c \in Uppers THEN LowerMap[c] ELSE c
UpperChar(c) == IF c \in Lowers THEN UpperMap[c] ELSE c
\* str.lower, str.upper
StrLower(s) == [k \in 1..Len(s) |-> LowerChar(s[k])]
StrUpper(s) == [k \in 1..Len(s) |-> UpperChar(s[k])]

\* text[i] at a 0-based offset; "" stands for "no character there"
At(text, i) == IF i >= 0 /\ i < Len(text) THEN text[i + 1] ELSE ""
Min(a, b) == IF a <= b THEN a ELSE b
\* text[i:j] for 0 <= i, j: a slice is cut at the end of the text
Slice(text, i, j) ==
  LET a == Min(i, Len(text))
      b == Min(j, Len(text))
  IN  IF b <= a THEN <<>> ELSE [k \in 1..(b - a) |-> text[a + k]]

RECURSIVE Concat(_)
Concat(ss) == IF ss = <<>> THEN <<>> ELSE Head(ss) \o Concat(Tail(ss))

SetMax(S) == CHOOSE x \in S : \A y \in S : y <= x
SetMin(S) == CHOOSE x \in S : \A y \in S : x <= y

\* str(n) for n >= 0
RECURSIVE DecStr(_)
DecStr(n) == IF n < 10 THEN <<DigitSeq[n + 1]>> ELSE DecStr(n \div 10) \o <<DigitSeq[(n % 10) + 1]>>

(***************************************************************************)
(* self.indian_names                                                       *)
(***************************************************************************)
indian_names_male ==
  { <<"r","a","j","e","s","h">>,
    <<"a","m","i","t">>,
    <<"r","o","h","i","t">>,
    <<"v","i","k","r","a","m">>,
    <<"s","u","r","e","s","h">>,
    <<"d","e","e","p","a","k">>,
    <<"a","n","i","l">>,
    <<"m","a","n","o","j">>,
    <<"p","r","a","k","a","s","h">>,
    <<"v","i","n","o","d">>,
    <<"a","s","h","o","k">>,
    <<"r","a","v","i">>,
    <<"m","o","h","a","n">>,
    <<"k","r","i","s","h","n","a">>,
    <<"g","a","n","e","s","h">>,
    <<"s","h","i","v","a">>,
    <<"a","r","j","u","n">>,
    <<"k","i","r","a","n">>,
    <<"a","j","a","y">>,
    <<"r","a","h","u","l">>,
    <<"a","n","k","i","t">>,
    <<"n","i","t","i","n">>,
    <<"s","a","c","h","i","n">>,
    <<"v","i","s","h","a","l">>,
    <<"p","r","a","d","e","e","p">>,
    <<"m","a","h","e","s","h">>,
    <<"s","a","n","t","o","s","h">>,
    <<"d","i","n","e","s","h">>,
    <<"r","a","m","e","s","h">>,
    <<"m","u","k","e","s","h">>,
    <<"y","o","g","e","s","h">> }

indian_names_female ==
  { <<"p","r","i","y","a">>,
    <<"s","n","e","h","a">>,
    <<"p","o","o","j","a">>,
    <<"k","a","v","y","a">>,
    <<"a","n","i","t","a">>,
    <<"m","e","e","r","a">>,
    <<"d","i","v","y","a">>,
    <<"r","i","y","a">>,
    <<"s","i","t","a">>,
    <<"n","i","s","h","a">>,
    <<"l","a","k","s","h","m","i">>,
    <<"r","a","d","h","a">>,
    <<"g","e","e","t","a">>,
    <<"s","h","a","n","t","i">>,
    <<"i","n","d","i","r","a">>,
    <<"p","a","r","v","a","t","i">>,
    <<"s","a","r","a","s","w","a","t","i">>,
    <<"d","u","r","g","a">>,
    <<"k","a","l","i">>,
    <<"s","u","n","i","t","a">>,
    <<"r","e","k","h","a">>,
    <<"s","o","n","i","a">>,
    <<"n","e","h","a">>,
    <<"a","s","h","a">>,
    <<"u","s","h","a">>,
    <<"r","i","t","a">>,
    <<"l","a","t","a">>,
    <<"m","a","y","a">>,
    <<"k","i","r","a","n">>,
    <<"j","y","o","t","i">>,
    <<"s","a","p","n","a">> }

(***************************************************************************)
(* self.patterns: each pattern as a matcher.  Match(p, text, i) is the end *)
(* offset of the match re finds when it tries the pattern at offset i      *)
(* (the first success in the pattern's backtracking order), or NoMatch.    *)
(***************************************************************************)
\* \b at offset i
WordBoundary(text, i) == (At(text, i - 1) \in WordChars) # (At(text, i) \in WordChars)
\* \d{n} at offset i
DigitRun(text, i, n) == \A k \in 0..(n - 1) : At(text, i + k) \in Digits
\* [A-Z]{n} at offset i under re.IGNORECASE
LetterRun(text, i, n) == \A k \in 0..(n - 1) : At(text, i + k) \in Letters
\* the end of the longest run of characters of class C that starts at offset i
RunEnd(text, i, C) == SetMin({j \in i..Len(text) : At(text, j) \notin C})
\* [-\s]? at offset i: the separator is taken when it is there; a pattern that goes
\* on with \d cannot match at the separator, so giving it back never succeeds
OptSep(text, i) == IF At(text, i) \in SepChars THEN i + 1 ELSE i

\* (?:0?[6-9]\d{9}|\d{10}) at offset i
PhoneBody(text, i) ==
  IF At(text, i) = "0" /\ At(text, i + 1) \in PhoneLead /\ DigitRun(text, i + 2, 9)
    THEN i + 11
  ELSE IF At(text, i) \in PhoneLead /\ DigitRun(text, i + 1, 9)
    THEN i + 10
  ELSE IF DigitRun(text, i, 10)
    THEN i + 10
  ELSE NoMatch

\* the first of three attempts that matched, in the order re makes them
FirstMatch(a, b, c) == IF a # NoMatch THEN a ELSE IF b # NoMatch THEN b ELSE c

\* (?:\+91[-\s]?)?(?:0?[6-9]\d{9}|\d{10}): with the prefix and its separator,
\* with the prefix alone, without the prefix
HasPrefix(text, i) == At(text, i) = "+" /\ At(text, i + 1) = "9" /\ At(text, i + 2) = "1"
MatchPhone(text, i) ==
  FirstMatch(IF HasPrefix(text, i) /\ At(text, i + 3) \in SepChars
               THEN PhoneBody(text, i + 4) ELSE NoMatch,
             IF HasPrefix(text, i) THEN PhoneBody(text, i + 3) ELSE NoMatch,
             PhoneBody(text, i))

\* \b[A-Za-z0-9._%+-]+@[A-Za-z0-9.-]+\.[A-Z|a-z]{2,}\b
\* The local part is the whole run up to the "@"; the domain run is given back
\* character by character until a "." follows it, and the top-level run is given
\* back until it ends at a word boundary.
EmailTldEnds(text, d) == {e \in (d + 3)..RunEnd(text, d + 1, EmailTldChars) : WordBoundary(text, e)}
MatchEmail(text, i) ==
  LET j == RunEnd(text, i, EmailLocalChars)
      k == RunEnd(text, j + 1, EmailDomainChars)
      dots == {d \in (j + 2)..(k - 1) : At(text, d) = "." /\ EmailTldEnds(text, d) # {}}
  IN  IF WordBoundary(text, i) /\ j > i /\ At(text, j) = "@" /\ dots # {}
        THEN SetMax(EmailTldEnds(text, SetMax(dots)))
        ELSE NoMatch

\* \b\d{4}[-\s]?\d{4}[-\s]?\d{4}\b
MatchAadhar(text, i) ==
  LET a == OptSep(text, i + 4)
      b == OptSep(text, a + 4)
  IN  IF /\ WordBoundary(text, i)
         /\ DigitRun(text, i, 4) /\ DigitRun(text, a, 4) /\ DigitRun(text, b, 4)
         /\ WordBoundary(text, b + 4)
        THEN b + 4 ELSE NoMatch

\* \b(?:\d{4}[-\s]?){3}\d{4}\b
MatchCreditCard(text, i) ==
  LET a == OptSep(text, i + 4)
      b == OptSep(text, a + 4)
      c == OptSep(text, b + 4)
  IN  IF /\ WordBoundary(text, i)
         /\ DigitRun(text, i, 4) /\ DigitRun(text, a, 4) /\ DigitRun(text, b, 4)
         /\ DigitRun(text, c, 4)
         /\ WordBoundary(text, c + 4)
        THEN c + 4 ELSE NoMatch

\* \b[A-Z]{5}[0-9]{4}[A-Z]{1}\b, matched with re.IGNORECASE
MatchPan(text, i) ==
  IF /\ WordBoundary(text, i)
     /\ LetterRun(text, i, 5) /\ DigitRun(text, i + 5, 4) /\ LetterRun(text, i + 9, 1)
     /\ WordBoundary(text, i + 10)
    THEN i + 10 ELSE NoMatch

\* the keys of self.patterns, in the order the dict holds them
PatternTypes == <<"phone", "email", "aadhar", "credit_card", "pan">>

Match(pii_type, text, i) ==
  CASE pii_type = "phone" -> MatchPhone(text, i)
    [] pii_type = "email" -> MatchEmail(text, i)
    [] pii_type = "aadhar" -> MatchAadhar(text, i)
    [] pii_type = "credit_card" -> MatchCreditCard(text, i)
    [] pii_type = "pan" -> MatchPan(text, i)

\* re.finditer(pattern, text): the non-overlapping matches, scanning from the left;
\* every match of these patterns is non-empty, so the scan resumes at its end.
\* ends[i + 1] is the end of the match at offset i, or NoMatch.
RECURSIVE Scan(_, _)
Scan(ends, pos) ==
  IF \A i \in pos..(Len(ends) - 1) : ends[i + 1] = NoMatch THEN <<>>
  ELSE <<[start |-> SetMin({i \in pos..(Len(ends) - 1) : ends[i + 1] # NoMatch}),
          end |-> ends[SetMin({i \in pos..(Len(ends) - 1) : ends[i + 1] # NoMatch}) + 1]]>>
         \o Scan(ends, ends[SetMin({i \in pos..(Len(ends) - 1) : ends[i + 1] # NoMatch}) + 1])

FindIter(pii_type, text) == Scan([k \in 1..Len(text) |-> Match(pii_type, text, k - 1)], 0)

(***************************************************************************)
(* The masked values of the pattern detector.                              *)
(***************************************************************************)
\* a mutation of _mask_phone: the country code is not looked for
_mask_phone_no_prefix(phone) ==
  LET clean_phone == SelectSeq(phone, LAMBDA c : c \in Digits \cup {"+"})
  IN  <<"*","*","*","*","-","*","*","*","*","-">>
        \o Slice(clean_phone, Len(clean_phone) - 4, Len(clean_phone))

\* _mask_phone
_mask_phone(phone) ==
  LET clean_phone == SelectSeq(phone, LAMBDA c : c \in Digits \cup {"+"})
      n == Len(clean_phone)
  IN  IF n >= 10
        THEN IF Slice(clean_phone, 0, 3) = <<"+","9","1">>
               THEN <<"+","9","1","-","*","*","*","*","-","*","*","*","*","-">> \o Slice(clean_phone, n - 4, n)
               ELSE <<"*","*","*","*","-","*","*","*","*","-">> \o Slice(clean_phone, n - 4, n)
        ELSE <<"*","*","*","*","-","*","*","*","*","-","*","*","*","*">>

\* _mask_email; email.split('@') has two parts exactly when email holds one "@"
_mask_email(email) ==
  LET ats == {k \in 1..Len(email) : email[k] = "@"}
      at == CHOOSE k \in ats : TRUE
      username == SubSeq(email, 1, at - 1)
      domain == SubSeq(email, at + 1, Len(email))
  IN  IF Cardinality(ats) = 1
        THEN IF Len(username) > 1
               THEN <<username[1]>> \o <<"*","*","*","*","@">> \o domain
               ELSE <<"*","*","*","*","@">> \o domain
        ELSE <<"*","*","*","*","@","*","*","*","*",".","c","o","m">>

REDACTED == <<"[","R","E","D","A","C","T","E","D","]">>

\* the masked value detect_pii_regex gives a match of pattern pii_type
RegexMaskedValue(pii_type, value) ==
  IF pii_type = "phone" THEN _mask_phone(value)
  ELSE IF pii_type = "email" THEN _mask_email(value)
  ELSE IF pii_type \in {"aadhar", "credit_card", "pan"} THEN REDACTED
  ELSE [k \in 1..Len(value) |-> "*"]

\* the characters of a pattern's key
TypeChars(pii_type) ==
  CASE pii_type = "phone" -> <<"p","h","o","n","e">>
    [] pii_type = "email" -> <<"e","m","a","i","l">>
    [] pii_type = "aadhar" -> <<"a","a","d","h","a","r">>
    [] pii_type = "credit_card" -> <<"c","r","e","d","i","t","_","c","a","r","d">>
    [] pii_type = "pan" -> <<"p","a","n">>

\* f"[{pii_type.upper()}_MASKED_{n}]"
RegexToken(pii_type, n) ==
  <<"[">> \o StrUpper(TypeChars(pii_type)) \o <<"_","M","A","S","K","E","D","_">> \o DecStr(n) \o <<"]">>

\* class PIIDetection
PIIDetection(pii_type, value, start_pos, end_pos, detection_method, masked_value, token) ==
  [pii_type |-> pii_type, value |-> value, start_pos |-> start_pos, end_pos |-> end_pos,
   detection_method |-> detection_method, masked_value |-> masked_value, token |-> token]

(***************************************************************************)
(* detect_pii_regex: the patterns in the order of self.patterns, each      *)
(* match appended; the ordinal of a token is the number of detections      *)
(* collected before it, of whatever pattern.                               *)
(***************************************************************************)
RegexDetection(pii_type, value, m, n) ==
  PIIDetection(pii_type, value, m.start, m.end, "regex",
               RegexMaskedValue(pii_type, value), RegexToken(pii_type, n))

RegexMatchesOf(pii_type, text, n0, ms) ==
  [k \in 1..Len(ms) |->
     RegexDetection(pii_type, Slice(text, ms[k].start, ms[k].end), ms[k], n0 + k - 1)]

RegexMatches(pii_type, text, n0) == RegexMatchesOf(pii_type, text, n0, FindIter(pii_type, text))

RECURSIVE RegexLoop(_, _, _)
RegexLoop(text, p, detections) ==
  IF p > Len(PatternTypes) THEN detections
  ELSE RegexLoop(text, p + 1, detections \o RegexMatches(PatternTypes[p], text, Len(detections)))

detect_pii_regex(text) == RegexLoop(text, 1, <<>>)

(***************************************************************************)
(* detect_pii_ner.  self.nlp is None or a loaded recognizer; the           *)
(* recognizer is a library outside the repository, so the model knows it   *)
(* by what the code reads of it: doc.ents, a list of labelled character    *)
(* ranges.  NlpEnts is a stand-in recognizer: every capitalised word is an *)
(* entity, labelled PERSON if it is a given name, ORG if it is written in  *)
(* capitals, GPE otherwise.                                                *)
(***************************************************************************)
NlpChoices == {"none", "en_core_web_sm"}

RECURSIVE NlpEntsFrom(_, _)
NlpEntsFrom(text, pos) ==
  LET starts == {i \in pos..(Len(text) - 1) :
                   At(text, i) \in Uppers /\ At(text, i - 1) \notin WordChars}
  IN  IF starts = {} THEN <<>>
      ELSE LET s == SetMin(starts)
               e == RunEnd(text, s, Letters)
               w == Slice(text, s, e)
               label == IF StrLower(w) \in indian_names_male \cup indian_names_female THEN "PERSON"
                        ELSE IF Len(w) > 1 /\ \A k \in 1..Len(w) : w[k] \in Uppers THEN "ORG"
                        ELSE "GPE"
           IN  <<[label_ |-> label, text |-> w, start_char |-> s, end_char |-> e]>>
                 \o NlpEntsFrom(text, e)

\* self.nlp(text).ents
NlpEnts(text) == NlpEntsFrom(text, 0)

RECURSIVE NerLoop(_, _, _, _)
NerLoop(ents, detections, person_count, org_count) ==
  IF ents = <<>> THEN detections
  ELSE LET ent == Head(ents)
       IN  IF ent.label_ = "PERSON"
             THEN LET token == <<"[","P","E","R","S","O","N","_","M","A","S","K","E","D","_">> \o DecStr(person_count) \o <<"]">>
                  IN  NerLoop(Tail(ents),
                              Append(detections, PIIDetection("person", ent.text, ent.start_char, ent.end_char, "ner", token, token)),
                              person_count + 1, org_count)
           ELSE IF ent.label_ = "ORG"
             THEN LET token == <<"[","O","R","G","_","M","A","S","K","E","D","_">> \o DecStr(org_count) \o <<"]">>
                  IN  NerLoop(Tail(ents),
                              Append(detections, PIIDetection("org", ent.text, ent.start_char, ent.end_char, "ner", token, token)),
                              person_count, org_count + 1)
           ELSE NerLoop(Tail(ents), detections, person_count, org_count)

\* a mutation of detect_pii_ner: the recognizer is run whether it was loaded or not
detect_pii_ner_always(nlp, text) == NerLoop(NlpEnts(text), <<>>, 0, 0)

detect_pii_ner(nlp, text) ==
  IF nlp = "none" THEN <<>> ELSE NerLoop(NlpEnts(text), <<>>, 0, 0)

(***************************************************************************)
(* detect_indian_names                                                     *)
(***************************************************************************)
\* text.split(): the maximal runs of non-whitespace characters, in order
RECURSIVE SplitFrom(_, _)
SplitFrom(text, pos) ==
  LET starts == {i \in pos..(Len(text) - 1) : At(text, i) \notin SpaceChars}
  IN  IF starts = {} THEN <<>>
      ELSE LET s == SetMin(starts)
               e == SetMin({j \in (s + 1)..Len(text) : j = Len(text) \/ At(text, j) \in SpaceChars})
           IN  <<Slice(text, s, e)>> \o SplitFrom(text, e)

Split(text) == SplitFrom(text, 0)

\* word.strip('.,!?;:'): the characters are removed from both ends
Strip(word) ==
  LET keep == {k \in 1..Len(word) : word[k] \notin StripChars}
  IN  IF keep = {} THEN <<>> ELSE SubSeq(word, SetMin(keep), SetMax(keep))

\* text.find(sub): the lowest offset at which sub occurs, or -1
Find(text, sub) ==
  LET at == {i \in 0..(Len(text) - Len(sub)) : Slice(text, i, i + Len(sub)) = sub}
  IN  IF at = {} THEN -1 ELSE SetMin(at)

\* a mutation of NameToken: the names of the lists are labelled as persons
NameTokenAsPerson(n) ==
  <<"[","P","E","R","S","O","N","_","M","A","S","K","E","D","_">> \o DecStr(n) \o <<"]">>

NameToken(n) == <<"[","N","A","M","E","_","M","A","S","K","E","D","_">> \o DecStr(n) \o <<"]">>

RECURSIVE NameLoop(_, _, _)
NameLoop(text, words, detections) ==
  IF words = <<>> THEN detections
  ELSE LET word_clean == Strip(StrLower(Head(words)))
           start_pos == Find(StrLower(text), word_clean)
           token == NameToken(Len(detections))
       IN  IF word_clean \in indian_names_male \cup indian_names_female /\ start_pos # -1
             THEN NameLoop(text, Tail(words),
                           Append(detections,
                                  PIIDetection("indian_name", word_clean, start_pos,
                                               start_pos + Len(word_clean), "name_pattern",
                                               token, token)))
             ELSE NameLoop(text, Tail(words), detections)

detect_indian_names(text) == NameLoop(text, Split(text), <<>>)

(***************************************************************************)
(* _remove_overlapping_detections                                          *)
(***************************************************************************)
\* sorted(xs, key=lambda x: x.start_pos): stable, by insertion
RECURSIVE InsertByStart(_, _)
InsertByStart(sorted, x) ==
  IF sorted = <<>> THEN <<x>>
  ELSE IF Head(sorted).start_pos <= x.start_pos
    THEN <<Head(sorted)>> \o InsertByStart(Tail(sorted), x)
    ELSE <<x>> \o sorted

RECURSIVE SortedByStart(_)
SortedByStart(xs) ==
  IF xs = <<>> THEN <<>>
  ELSE InsertByStart(SortedByStart(SubSeq(xs, 1, Len(xs) - 1)), xs[Len(xs)])

\* a mutation of method_priority: the recognizer ranks above the patterns
method_priority_ner_first(method) ==
  CASE method = "ner" -> 3
    [] method = "regex" -> 2
    [] method = "name_pattern" -> 1
    [] OTHER -> 0

\* method_priority.get(method, 0)
method_priority(method) ==
  CASE method = "regex" -> 3
    [] method = "ner" -> 2
    [] method = "name_pattern" -> 1
    [] OTHER -> 0

\* the overlap test of the inner loop
Overlaps(current, accepted) ==
  current.start_pos < accepted.end_pos /\ current.end_pos > accepted.start_pos

\* list.remove(x): the list without its first element equal to x
RECURSIVE ListRemove(_, _)
ListRemove(xs, x) ==
  IF xs = <<>> THEN <<>>
  ELSE IF Head(xs) = x THEN Tail(xs)
  ELSE <<Head(xs)>> \o ListRemove(Tail(xs), x)

\* a mutation of ResolveOne: a detection replaces an accepted one of equal priority
ResolveOneLaterWins(filtered, current) ==
  LET hits == {k \in 1..Len(filtered) : Overlaps(current, filtered[k])}
  IN  IF hits = {} THEN Append(filtered, current)
      ELSE LET accepted == filtered[SetMin(hits)]
           IN  IF method_priority(current.detection_method) >= method_priority(accepted.detection_method)
                 THEN Append(ListRemove(filtered, accepted), current)
                 ELSE filtered

\* a mutation of ResolveOne: the inner loop is skipped, every detection is accepted
ResolveOneKeepAll(filtered, current) == Append(filtered, current)

\* one pass of the outer loop: the inner loop stops at the first accepted detection
\* that overlaps current
ResolveOne(filtered, current) ==
  LET hits == {k \in 1..Len(filtered) : Overlaps(current, filtered[k])}
  IN  IF hits = {} THEN Append(filtered, current)
      ELSE LET accepted == filtered[SetMin(hits)]
           IN  IF method_priority(current.detection_method) > method_priority(accepted.detection_method)
                 THEN Append(ListRemove(filtered, accepted), current)
                 ELSE filtered

RECURSIVE ResolveLoop(_, _)
ResolveLoop(sorted_detections, filtered) ==
  IF sorted_detections = <<>> THEN filtered
  ELSE ResolveLoop(Tail(sorted_detections), ResolveOne(filtered, Head(sorted_detections)))

_remove_overlapping_detections(detections) ==
  IF detections = <<>> THEN <<>>
  ELSE SortedByStart(ResolveLoop(SortedByStart(detections), <<>>))

(***************************************************************************)
(* detect_pii                                                              *)
(***************************************************************************)
detect_pii(nlp, text) ==
  _remove_overlapping_detections(
    detect_pii_regex(text) \o detect_pii_ner(nlp, text) \o detect_indian_names(text))

(***************************************************************************)
(* mask_text                                                               *)
(***************************************************************************)
\* sorted(xs, key=lambda x: x.start_pos, reverse=True): stable as well
RECURSIVE InsertByStartDesc(_, _)
InsertByStartDesc(sorted, x) ==
  IF sorted = <<>> THEN <<x>>
  ELSE IF Head(sorted).start_pos >= x.start_pos
    THEN <<Head(sorted)>> \o InsertByStartDesc(Tail(sorted), x)
    ELSE <<x>> \o sorted

RECURSIVE SortedByStartDesc(_)
SortedByStartDesc(xs) ==
  IF xs = <<>> THEN <<>>
  ELSE InsertByStartDesc(SortedByStartDesc(SubSeq(xs, 1, Len(xs) - 1)), xs[Len(xs)])

\* the characters of the model's texts, in a fixed order: a character's code
AlphabetSeq ==
  UpperSeq \o LowerSeq \o DigitSeq \o <<" ",".",",","!","?",";",":","-","+","@","_","%","|","[","]","*","'">>
CharCode(c) == CHOOSE k \in 1..Len(AlphabetSeq) : AlphabetSeq[k] = c

\* hashlib.sha256(value.encode()).hexdigest()[:16]: a digest of fixed width.  The
\* model keeps of SHA-256 that the digest is a function of the value and is not
\* the value: a 16-bit fold of the character codes stands for the 16 hex digits.
HashBits == 65536
\* the fold h <- (h * 31 + code) % HashBits over the characters of value, computed
\* in halves; the products stay within 32 bits
MulMod(a, b) == ((((a * (b \div 256)) % HashBits) * 256) + a * (b % 256)) % HashBits

\* 31 ^ n
RECURSIVE Pow31(_)
Pow31(n) ==
  IF n = 0 THEN 1
  ELSE IF n % 2 = 1 THEN (31 * Pow31(n - 1)) % HashBits
  ELSE MulMod(Pow31(n \div 2), Pow31(n \div 2))

\* the fold of value from 0
RECURSIVE FoldFromZero(_)
FoldFromZero(value) ==
  IF Len(value) = 0 THEN 0
  ELSE IF Len(value) = 1 THEN CharCode(value[1]) % HashBits
  ELSE (MulMod(FoldFromZero(SubSeq(value, 1, Len(value) \div 2)),
               Pow31(Len(value) - (Len(value) \div 2)))
          + FoldFromZero(SubSeq(value, (Len(value) \div 2) + 1, Len(value)))) % HashBits

Fold(value, h) == (MulMod(h, Pow31(Len(value))) + FoldFromZero(value)) % HashBits
Sha256Hex16(value) == [hexdigest16 |-> Fold(value, 7)]

\* a dict in insertion order: a sequence of [key, value]; d[key] = value
DictSet(d, key, value) ==
  IF \E k \in 1..Len(d) : d[k].key = key
    THEN [k \in 1..Len(d) |-> IF d[k].key = key THEN [key |-> key, value |-> value] ELSE d[k]]
    ELSE Append(d, [key |-> key, value |-> value])

\* a mutation of MapEntry: the raw value is stored as the masked value
MapEntryRaw(detection) ==
  [type |-> detection.pii_type,
   hash |-> Sha256Hex16(detection.value),
   method |-> detection.detection_method,
   masked_value |-> detection.value,
   position |-> [tuple |-> <<detection.start_pos, detection.end_pos>>]]

\* a mutation of MapEntry: the raw value is stored beside its hash
MapEntryWithValue(detection) ==
  [type |-> detection.pii_type,
   hash |-> Sha256Hex16(detection.value),
   method |-> detection.detection_method,
   masked_value |-> detection.masked_value,
   position |-> [tuple |-> <<detection.start_pos, detection.end_pos>>],
   value |-> detection.value]

\* the value mask_text stores under a detection's token
MapEntry(detection) ==
  [type |-> detection.pii_type,
   hash |-> Sha256Hex16(detection.value),
   method |-> detection.detection_method,
   masked_value |-> detection.masked_value,
   position |-> [tuple |-> <<detection.start_pos, detection.end_pos>>]]

\* the loop of mask_text over sorted_pii
RECURSIVE MaskLoop(_, _, _)
MaskLoop(sorted_pii, masked_text, pii_map) ==
  IF sorted_pii = <<>> THEN [masked_text |-> masked_text, pii_map |-> pii_map]
  ELSE LET detection == Head(sorted_pii)
       IN  MaskLoop(Tail(sorted_pii),
                    Slice(masked_text, 0, detection.start_pos)
                      \o detection.masked_value
                      \o Slice(masked_text, detection.end_pos, Len(masked_text)),
                    DictSet(pii_map, detection.token, MapEntry(detection)))

\* a mutation of mask_text: a text without detections comes back in lower case, as
\* the name detector reads it
mask_text_lowered(text, detected_pii) ==
  IF detected_pii = <<>> THEN [masked_text |-> StrLower(text), pii_map |-> <<>>]
  ELSE MaskLoop(SortedByStartDesc(detected_pii), text, <<>>)

\* a mutation of mask_text: the detections are taken in the order they are given
mask_text_unsorted(text, detected_pii) ==
  IF detected_pii = <<>> THEN [masked_text |-> text, pii_map |-> <<>>]
  ELSE MaskLoop(detected_pii, text, <<>>)

mask_text(text, detected_pii) ==
  IF detected_pii = <<>> THEN [masked_text |-> text, pii_map |-> <<>>]
  ELSE MaskLoop(SortedByStartDesc(detected_pii), text, <<>>)

(***************************************************************************)
(* The session store: app/core/cache.py over Redis.                        *)
(***************************************************************************)
\* json.dumps(value, default=str) followed by json.loads.  Of what the engine
\* stores, a token map comes back with the tuple of each position as a list; an
\* audit record (strings, lists and a number) comes back as it was.
JsonValue(v) == [v EXCEPT !.position = [list |-> v.position.tuple]]
JsonRoundTrip(key, value) ==
  IF key[1] = "pii_map"
    THEN [k \in 1..Len(value) |-> [key |-> value[k].key, value |-> JsonValue(value[k].value)]]
    ELSE value

\* a mutation of StoreSetex: client.set(key, value), the branch of cache_set without
\* a ttl, after which the key does not expire
StoreSet(store, key, value, ttl, now) ==
  [k \in DOMAIN store \cup {key} |->
     IF k = key THEN [value |-> JsonRoundTrip(key, value), expires |-> 1000000000]
     ELSE store[k]]

\* the store after setex(key, ttl, value) at time now
StoreSetex(store, key, value, ttl, now) ==
  [k \in DOMAIN store \cup {key} |->
     IF k = key THEN [value |-> JsonRoundTrip(key, value), expires |-> now + ttl] ELSE store[k]]

\* cache_set: the store afterwards; an exception of the client leaves it as it was
cache_set_store(store, up, key, value, ttl, now) ==
  IF up THEN StoreSetex(store, key, value, ttl, now) ELSE store
\* a mutation of cache_set_result: the exception of the client is not caught
cache_set_raises(up) == IF up THEN "True" ELSE "raised"

\* cache_set: its return value; the except clause turns an exception into False
cache_set_result(up) == IF up THEN "True" ELSE "False"

\* an Optional: None, or a value
None == [found |-> FALSE]
Some(value) == [found |-> TRUE, value |-> value]

\* cache_get: None when the client raises or the key is absent
cache_get(store, up, key) ==
  IF up /\ key \in DOMAIN store THEN Some(store[key].value) ELSE None

(***************************************************************************)
(* unmask_response                                                         *)
(***************************************************************************)
\* token in text
Contains(text, sub) == Find(text, sub) # -1

\* str.replace(old, new): the occurrences of old from the left, not overlapping
RECURSIVE ReplaceFrom(_, _, _, _)
ReplaceFrom(text, pos, old, new) ==
  LET at == {i \in pos..(Len(text) - Len(old)) : Slice(text, i, i + Len(old)) = old}
  IN  IF at = {} THEN Slice(text, pos, Len(text))
      ELSE LET i == SetMin(at)
           IN  Slice(text, pos, i) \o new \o ReplaceFrom(text, i + Len(old), old, new)

\* a mutation of Replace: str.replace(old, new, 1), the first occurrence only
ReplaceFirst(text, old, new) ==
  IF Find(text, old) = -1 THEN text
  ELSE Slice(text, 0, Find(text, old)) \o new
         \o Slice(text, Find(text, old) + Len(old), Len(text))

Replace(text, old, new) == ReplaceFrom(text, 0, old, new)

\* the loop over pii_map.items()
RECURSIVE UnmaskLoop(_, _)
UnmaskLoop(items, unmasked_text) ==
  IF items = <<>> THEN unmasked_text
  ELSE LET token == Head(items).key
           mapping == Head(items).value
       IN  UnmaskLoop(Tail(items),
                      IF Contains(unmasked_text, token)
                        THEN Replace(unmasked_text, token, mapping.masked_value)
                        ELSE unmasked_text)

\* a mutation of unmask_response: without a token map nothing is returned
unmask_response_or_nothing(masked_text, pii_map) ==
  IF ~pii_map.found \/ pii_map.value = <<>> THEN <<>>
  ELSE UnmaskLoop(pii_map.value, masked_text)

\* unmask_response, given what cache_get returned; "not pii_map" holds of None and
\* of an empty dict
unmask_response(masked_text, pii_map) ==
  IF ~pii_map.found \/ pii_map.value = <<>> THEN masked_text
  ELSE UnmaskLoop(pii_map.value, masked_text)

(***************************************************************************)
(* Bounds of the model.                                                    *)
(***************************************************************************)
\* concurrent invocations of process_user_input
MaxCalls == 2
\* steps of the clock
MaxTicks == 2
\* fragments a generated text is made of
MaxFrags == 2
\* spans in a list handed to the resolver, and the largest offset of a span
MaxSpans == 3
MaxPos == 3

(***************************************************************************)
(* The texts the engine is run on.                                         *)
(***************************************************************************)
\* the test cases of test_pii_masking
\* "Hi, I'm Rajesh and my phone number is +91-9876543210"
TestRajesh ==
  <<"H","i",","," ","I","'","m"," ","R","a","j","e","s","h"," ","a","n","d"," ","m","y"," ","p","h","o","n","e"," ","n","u","m","b","e","r"," ","i","s"," ","+","9","1","-","9","8","7","6","5","4","3","2","1","0">>
\* "Please contact me at priya.sharma@gmail.com or call 9123456789"
TestPriya ==
  <<"P","l","e","a","s","e"," ","c","o","n","t","a","c","t"," ","m","e"," ","a","t"," ","p","r","i","y","a",".","s","h","a","r","m","a","@","g","m","a","i","l",".","c","o","m"," ","o","r"," ","c","a","l","l"," ","9","1","2","3","4","5","6","7","8","9">>
\* "My Aadhar number is 1234-5678-9012 and email is amit123@yahoo.com"
TestAadhar ==
  <<"M","y"," ","A","a","d","h","a","r"," ","n","u","m","b","e","r"," ","i","s"," ","1","2","3","4","-","5","6","7","8","-","9","0","1","2"," ","a","n","d"," ","e","m","a","i","l"," ","i","s"," ","a","m","i","t","1","2","3","@","y","a","h","o","o",".","c","o","m">>
\* "Call Suresh at +91-8765432109, his credit card is 4111-1111-1111-1111"
TestSuresh ==
  <<"C","a","l","l"," ","S","u","r","e","s","h"," ","a","t"," ","+","9","1","-","8","7","6","5","4","3","2","1","0","9",","," ","h","i","s"," ","c","r","e","d","i","t"," ","c","a","r","d"," ","i","s"," ","4","1","1","1","-","1","1","1","1","-","1","1","1","1","-","1","1","1","1">>
\* "I'm Kavya from Mumbai, phone: 9876543210, PAN: ABCDE1234F"
TestKavya ==
  <<"I","'","m"," ","K","a","v","y","a"," ","f","r","o","m"," ","M","u","m","b","a","i",","," ","p","h","o","n","e",":"," ","9","8","7","6","5","4","3","2","1","0",","," ","P","A","N",":"," ","A","B","C","D","E","1","2","3","4","F">>
TestTexts == {TestRajesh, TestPriya, TestAadhar, TestSuresh, TestKavya}

\* pieces of text: names, numbers of each pattern, what may stand between them, and
\* a placeholder token written out
Fragments ==
  { <<"C","a","l","l"," ">>,
    <<"S","u","r","e","s","h">>,
    <<" ","s","u","r","e","s","h",",">>,
    <<"s","u","r","e","s","h","o","t"," ">>,
    <<"R","i","t","a">>,
    <<"h","e","l","l","o">>,
    <<" ">>,
    <<","," ">>,
    <<"-">>,
    <<"x">>,
    <<"1">>,
    <<"+","9","1","-","8","7","6","5","4","3","2","1","0","9">>,
    <<"9","1","2","3","4","5","6","7","8","9">>,
    <<"0","8","7","6","5","4","3","2","1","0","9">>,
    <<"4","1","1","1","-","1","1","1","1","-","1","1","1","1","-","1","1","1","1">>,
    <<"4","1","1","1"," ","1","1","1","1"," ","1","1","1","1"," ","1","1","1","1">>,
    <<"4","1","1","1","1","1","1","1","1","1","1","1","1","1","1","1">>,
    <<"1","2","3","4","-","5","6","7","8","-","9","0","1","2">>,
    <<"a","@","b",".","c","o">>,
    <<"p","r","i","y","a",".","s","h","a","r","m","a","@","g","m","a","i","l",".","c","o","m">>,
    <<"A","B","C","D","E","1","2","3","4","F">>,
    <<"[","P","H","O","N","E","_","M","A","S","K","E","D","_","0","]">> }

\* "hello world"
TextClean ==
  <<"h","e","l","l","o"," ","w","o","r","l","d">>
\* "Call Suresh"
TextName ==
  <<"C","a","l","l"," ","S","u","r","e","s","h">>
\* "call 9123456789"
TextPhone ==
  <<"c","a","l","l"," ","9","1","2","3","4","5","6","7","8","9">>

\* replies that quote placeholder tokens, as the texts handed to unmask_response
\* "Hi [NAME_MASKED_0], we will call [PHONE_MASKED_0]. [PHONE_MASKED_0] is right?"
ProbeReply ==
  <<"H","i"," ","[","N","A","M","E","_","M","A","S","K","E","D","_","0","]",","," ","w","e"," ","w","i","l","l"," ","c","a","l","l"," ","[","P","H","O","N","E","_","M","A","S","K","E","D","_","0","]","."," ","[","P","H","O","N","E","_","M","A","S","K","E","D","_","0","]"," ","i","s"," ","r","i","g","h","t","?">>
\* "Card [AADHAR_MASKED_1] of [NAME_MASKED_0]"
ProbeCard ==
  <<"C","a","r","d"," ","[","A","A","D","H","A","R","_","M","A","S","K","E","D","_","1","]"," ","o","f"," ","[","N","A","M","E","_","M","A","S","K","E","D","_","0","]">>

\* the texts of the specification of the detectors: the test cases, the empty text
\* and every concatenation of at most MaxFrags fragments
TextsOf(n) ==
  IF n = 0 THEN TestTexts \cup {<<>>} ELSE {Concat(fs) : fs \in [1..n -> Fragments]}

\* the texts of the specification of the sessions
SessionTexts == {TextClean, TextName, TextPhone, TestSuresh}

UnmaskProbes == {ProbeReply, ProbeCard}

(***************************************************************************)
(* The lists of spans the resolver is run on by itself: every list of at   *)
(* most MaxSpans spans within 0..MaxPos, of every method.  A span's token  *)
(* is its place in the list, as the tokens of one invocation differ.       *)
(***************************************************************************)
Methods == {"regex", "ner", "name_pattern"}
Ranges == {r \in (0..MaxPos) \X (0..MaxPos) : r[1] < r[2]}
SpanLists(n) ==
  {[k \in 1..n |-> [start_pos |-> rs[k][1], end_pos |-> rs[k][2],
                     detection_method |-> ms[k], token |-> k]] :
     rs \in [1..n -> Ranges], ms \in [1..n -> Methods]}

(***************************************************************************)
(* The arguments mask_text is run on by itself: a text of MaxPos           *)
(* characters and every list, in every order, of at most MaxSpans spans    *)
(* within it of which no two overlap, each with a masked value that is     *)
(* empty, of one character or of three.                                    *)
(***************************************************************************)
MaskedText == [k \in 1..MaxPos |-> LowerSeq[k]]
MaskValues == {<<>>, <<"*">>, <<"[","X","]">>}
DisjointRanges(n) ==
  {rs \in [1..n -> Ranges] :
     \A i, j \in 1..n : i # j => ~(rs[i][1] < rs[j][2] /\ rs[j][1] < rs[i][2])}
MaskLists(n) ==
  {[k \in 1..n |->
      PIIDetection("phone", Slice(MaskedText, rs[k][1], rs[k][2]), rs[k][1], rs[k][2],
                   "regex", vs[k], RegexToken("phone", k - 1))] :
     rs \in DisjointRanges(n), vs \in [1..n -> MaskValues]}

(***************************************************************************)
(* State.                                                                  *)
(***************************************************************************)
VARIABLES
  nlp,       \* self.nlp: "none", or the recognizer that was loaded
  up,        \* whether the Redis client reaches the server; if not, it raises
  hung,      \* whether the server holds the commands it gets without replying
  now,       \* the time, in seconds
  ticks,     \* the steps the clock has made
  store,     \* Redis: key -> [value, expires]
  call,      \* the invocations of process_user_input: their position and locals
  unmask,    \* the last invocation of unmask_response
  resolver,  \* a run of _remove_overlapping_detections by itself
  masking    \* a run of mask_text by itself

vars == <<nlp, up, hung, now, ticks, store, call, unmask, resolver, masking>>

Calls == 1..MaxCalls

\* the TTLs process_user_input passes to cache_set
TTL_MAP == 3600
TTL_AUDIT == 86400
\* the steps of the clock: half a TTL_MAP, and what is left of TTL_AUDIT after one
TickSteps == {TTL_MAP \div 2, TTL_AUDIT - TTL_MAP}

EmptyStore == [k \in {} |-> None]

IdleCall ==
  [pc |-> "idle", arg |-> "str", text |-> <<>>, session_id |-> 0, detected_pii |-> <<>>,
   masked_text |-> <<>>, pii_map |-> <<>>, audit_data |-> None, result |-> None]

NoMasking == [pc |-> "idle", text |-> <<>>, detected_pii |-> <<>>, masked_text |-> <<>>, pii_map |-> <<>>]

NoUnmask == [masked_text |-> <<>>, session_id |-> 0, at |-> 0, pii_map |-> None, result |-> None]

Init ==
  /\ nlp \in NlpChoices
  /\ up = TRUE
  /\ hung = FALSE
  /\ now = 0
  /\ ticks = 0
  /\ store = EmptyStore
  /\ call = [c \in Calls |-> IdleCall]
  /\ unmask = NoUnmask
  /\ resolver = [input |-> <<>>, output |-> <<>>, pc |-> "idle"]
  /\ masking = NoMasking

(***************************************************************************)
(* process_user_input.  The coroutine runs from one await of cache_set to  *)
(* the next without interruption; other invocations, the store and the     *)
(* clock move in between.                                                  *)
(***************************************************************************)
\* a mutation of ReturnValue: the masked text is marked with the session it belongs to
ReturnValueOfSession(text, masked_text, session_id, detected_pii) ==
  [original_text |-> text,
   masked_text |-> masked_text \o <<"|">> \o DecStr(session_id),
   session_id |-> session_id,
   pii_detected |-> [k \in 1..Len(detected_pii) |->
                       [type |-> detected_pii[k].pii_type,
                        method |-> detected_pii[k].detection_method]],
   pii_count |-> Len(detected_pii)]

\* the dict process_user_input returns
ReturnValue(text, masked_text, session_id, detected_pii) ==
  [original_text |-> text,
   masked_text |-> masked_text,
   session_id |-> session_id,
   pii_detected |-> [k \in 1..Len(detected_pii) |->
                       [type |-> detected_pii[k].pii_type,
                        method |-> detected_pii[k].detection_method]],
   pii_count |-> Len(detected_pii)]

\* audit_data
AuditData(session_id, timestamp, detected_pii) ==
  [session_id |-> session_id,
   timestamp |-> timestamp,
   pii_types |-> [k \in 1..Len(detected_pii) |-> detected_pii[k].pii_type],
   detection_methods |-> {detected_pii[k].detection_method : k \in 1..Len(detected_pii)},
   pii_count |-> Len(detected_pii)]

\* detection and masking of a text: lines 323-326
PipelineResult(detected_pii, m) ==
  [detected_pii |-> detected_pii, masked_text |-> m.masked_text, pii_map |-> m.pii_map]
PipelineOf(text, detected_pii) == PipelineResult(detected_pii, mask_text(text, detected_pii))
Pipeline(n, text) == PipelineOf(text, detect_pii(n, text))

\* Pipeline on the texts of the sessions, evaluated once
PipelineOfSessionTexts ==
  {[nlp |-> n, text |-> text, pipeline |-> Pipeline(n, text)] :
     n \in NlpChoices, text \in SessionTexts}

\* lines 320-329: uuid4 gives every invocation an identifier of its own (here the
\* number of the invocation; invocations are numbered in the order they start);
\* detection and masking; with an empty token map the function returns at once
BeginWith(c, text, session_id, m) ==
  /\ call[c].pc = "idle"
  /\ c > 1 => call[c - 1].pc # "idle"
  /\ call' = [call EXCEPT ![c] =
       [pc |-> IF m.pii_map # <<>> THEN "cache_set_map" ELSE "returned",
        arg |-> "str",
        text |-> text,
        session_id |-> session_id,
        detected_pii |-> m.detected_pii,
        masked_text |-> m.masked_text,
        pii_map |-> m.pii_map,
        audit_data |-> None,
        result |-> IF m.pii_map # <<>> THEN None
                   ELSE ReturnValue(text, m.masked_text, session_id, m.detected_pii)]]
  /\ UNCHANGED <<nlp, masking, hung, up, now, ticks, store, unmask, resolver>>

\* a mutation of uuid4: every invocation is given the same identifier
uuid4_fixed(c) == 1

\* str(uuid.uuid4()): an identifier no other invocation has
uuid4(c) == c

Begin(c, text) ==
  BeginWith(c, text, uuid4(c),
            IF text \in SessionTexts
              THEN (CHOOSE e \in PipelineOfSessionTexts : e.nlp = nlp /\ e.text = text).pipeline
              ELSE Pipeline(nlp, text))

\* an await of client.setex or client.get completes: the client raises at once when
\* it cannot reach the server, and no timeout is set on the connection pool
\* (cache.py:26-32) or around the await, so a command the server holds is awaited
\* for as long as the server holds it
Completes == ~up \/ ~hung

\* the values that are not texts, by the name of their type
NonTextValues == {"NoneType", "int"}

\* process_user_input(value) with a value that is not a str: nothing checks the
\* type, detect_pii hands the value to detect_pii_regex, and re.finditer raises
\* TypeError at line 86; no except clause encloses it, so the invocation ends with
\* the exception before anything is masked or stored
BeginNonText(c, value) ==
  /\ call[c].pc = "idle"
  /\ c > 1 => call[c - 1].pc # "idle"
  /\ call' = [call EXCEPT ![c] = [IdleCall EXCEPT !.pc = "raised", !.arg = value,
                                                   !.session_id = c]]
  /\ UNCHANGED <<nlp, masking, hung, up, now, ticks, store, unmask, resolver>>

\* lines 330-340: await cache_set(cache_key, pii_map, ttl=3600), then audit_data
SetMap(c) ==
  /\ call[c].pc = "cache_set_map"
  /\ Completes
  /\ store' = cache_set_store(store, up, <<"pii_map", call[c].session_id>>,
                              call[c].pii_map, TTL_MAP, now)
  /\ call' = [call EXCEPT ![c] =
       IF cache_set_result(up) = "raised"
         THEN [@ EXCEPT !.pc = "raised"]
         ELSE [@ EXCEPT !.pc = "cache_set_audit",
                        !.audit_data = AuditData(call[c].session_id, now, call[c].detected_pii)]]
  /\ UNCHANGED <<nlp, masking, hung, up, now, ticks, unmask, resolver>>

\* lines 341-361: await cache_set(audit_key, audit_data, ttl=86400), then return
SetAudit(c) ==
  /\ call[c].pc = "cache_set_audit"
  /\ Completes
  /\ store' = cache_set_store(store, up, <<"pii_audit", call[c].session_id>>,
                              call[c].audit_data, TTL_AUDIT, now)
  /\ call' = [call EXCEPT ![c] =
       IF cache_set_result(up) = "raised"
         THEN [@ EXCEPT !.pc = "raised"]
         ELSE [@ EXCEPT !.pc = "returned",
                        !.result = ReturnValue(call[c].text, call[c].masked_text,
                                               call[c].session_id, call[c].detected_pii)]]
  /\ UNCHANGED <<nlp, masking, hung, up, now, ticks, unmask, resolver>>

(***************************************************************************)
(* unmask_response: one await of cache_get, then the replacement.  It only *)
(* reads the store, so a behaviour records one invocation of it, made at   *)
(* any moment with any argument.                                           *)
(***************************************************************************)
Unmask(masked_text, session_id) ==
  /\ unmask = NoUnmask
  /\ Completes
  /\ LET pii_map == cache_get(store, up, <<"pii_map", session_id>>)
     IN  unmask' = [masked_text |-> masked_text, session_id |-> session_id,
                    at |-> now,
                    pii_map |-> pii_map,
                    result |-> unmask_response(masked_text, pii_map)]
  /\ UNCHANGED <<nlp, masking, hung, up, now, ticks, store, call, resolver>>

\* the masked texts the invocations have returned
ReturnedTexts == {call[c].masked_text : c \in {d \in Calls : call[d].pc = "returned"}}

\* the texts unmask_response is given: the replies, and what an invocation returned
UnmaskTexts == UnmaskProbes \cup ReturnedTexts

(***************************************************************************)
(* The environment: Redis goes away and comes back, time passes and Redis  *)
(* drops the keys whose time to live has run out.                          *)
(***************************************************************************)
StoreDown ==
  /\ up
  /\ up' = FALSE
  /\ UNCHANGED <<nlp, masking, hung, now, ticks, store, call, unmask, resolver>>

StoreUp ==
  /\ ~up
  /\ up' = TRUE
  /\ UNCHANGED <<nlp, masking, hung, now, ticks, store, call, unmask, resolver>>

StoreHangs ==
  /\ ~hung
  /\ hung' = TRUE
  /\ UNCHANGED <<nlp, masking, up, now, ticks, store, call, unmask, resolver>>

StoreAnswers ==
  /\ hung
  /\ hung' = FALSE
  /\ UNCHANGED <<nlp, masking, up, now, ticks, store, call, unmask, resolver>>

Tick(d) ==
  /\ ticks < MaxTicks
  /\ ticks' = ticks + 1
  /\ now' = now + d
  /\ store' = [k \in {j \in DOMAIN store : store[j].expires > now + d} |-> store[k]]
  /\ UNCHANGED <<nlp, masking, hung, up, call, unmask, resolver>>

(***************************************************************************)
(* The invocations of process_user_input, interleaved at their awaits,     *)
(* with the store going away and coming back.  unmask_response writes      *)
(* nothing they read; it runs in the specification of one session below.   *)
(***************************************************************************)
Next ==
  \/ \E c \in Calls, text \in SessionTexts : Begin(c, text)
  \/ \E c \in Calls : SetMap(c)
  \/ \E c \in Calls : SetAudit(c)
  \/ StoreDown
  \/ StoreUp

Spec == Init /\ [][Next]_vars

(***************************************************************************)
(* One session over time: an invocation, the clock, the store and          *)
(* unmask_response.                                                        *)
(***************************************************************************)
NextTTL ==
  \/ \E text \in SessionTexts : Begin(1, text)
  \/ SetMap(1)
  \/ SetAudit(1)
  \/ \E t \in UnmaskTexts : Unmask(t, 1)
  \/ StoreDown
  \/ StoreUp
  \/ \E d \in TickSteps : Tick(d)

SpecTTL == Init /\ [][NextTTL]_vars

(***************************************************************************)
(* The detectors, the resolver and the masking on every text of TextsOf    *)
(* and on the values that are no texts: one invocation of                  *)
(* process_user_input, the store answering, and unmask_response on what    *)
(* the invocation returned.                                                *)
(***************************************************************************)
NextText ==
  \/ \E n \in 0..MaxFrags : \E text \in TextsOf(n) : Begin(1, text)
  \/ \E value \in NonTextValues : BeginNonText(1, value)
  \/ SetMap(1)
  \/ SetAudit(1)
  \/ \E t \in ReturnedTexts : Unmask(t, 1)

SpecText == Init /\ [][NextText]_vars

(***************************************************************************)
(* One invocation and a store that may go away, come back, hold its        *)
(* commands and answer again.  The event loop resumes a coroutine as soon  *)
(* as its await has completed, so a completion that is possible again and  *)
(* again does happen: strong fairness of the steps after the awaits.       *)
(* Nothing obliges the store to answer.                                    *)
(***************************************************************************)
NextLive ==
  \/ \E text \in SessionTexts : Begin(1, text)
  \/ SetMap(1)
  \/ SetAudit(1)
  \/ StoreDown
  \/ StoreUp
  \/ StoreHangs
  \/ StoreAnswers

SpecLive == Init /\ [][NextLive]_vars /\ SF_vars(SetMap(1)) /\ SF_vars(SetAudit(1))

(***************************************************************************)
(* The resolver by itself, on every list of SpanLists.                     *)
(***************************************************************************)
InitResolve ==
  /\ nlp = "none"
  /\ up = TRUE
  /\ hung = FALSE
  /\ now = 0
  /\ ticks = 0
  /\ store = EmptyStore
  /\ call = [c \in Calls |-> IdleCall]
  /\ unmask = NoUnmask
  /\ masking = NoMasking
  /\ \E n \in 0..MaxSpans :
       resolver \in {[input |-> l, output |-> <<>>, pc |-> "start"] : l \in SpanLists(n)}

Resolve ==
  /\ resolver.pc = "start"
  /\ resolver' = [resolver EXCEPT !.output = _remove_overlapping_detections(resolver.input),
                                  !.pc = "done"]
  /\ UNCHANGED <<nlp, masking, hung, up, now, ticks, store, call, unmask>>

NextResolve == Resolve

SpecResolve == InitResolve /\ [][NextResolve]_vars

(***************************************************************************)
(* mask_text by itself, on every list of MaskLists.                        *)
(***************************************************************************)
InitMask ==
  /\ nlp = "none"
  /\ up = TRUE
  /\ hung = FALSE
  /\ now = 0
  /\ ticks = 0
  /\ store = EmptyStore
  /\ call = [c \in Calls |-> IdleCall]
  /\ unmask = NoUnmask
  /\ resolver = [input |-> <<>>, output |-> <<>>, pc |-> "idle"]
  /\ \E n \in 0..MaxSpans :
       masking \in {[NoMasking EXCEPT !.pc = "start", !.text = MaskedText, !.detected_pii = l] :
                      l \in MaskLists(n)}

MaskStep(m) ==
  /\ masking.pc = "start"
  /\ masking' = [masking EXCEPT !.pc = "done", !.masked_text = m.masked_text,
                                 !.pii_map = m.pii_map]
  /\ UNCHANGED <<nlp, up, hung, now, ticks, store, call, unmask, resolver>>

Mask == MaskStep(mask_text(masking.text, masking.detected_pii))

NextMask == Mask

SpecMask == InitMask /\ [][NextMask]_vars

(***************************************************************************)
(* The properties.                                                         *)
(***************************************************************************)
\* a.start < b.end and b.start < a.end
SpansOverlap(a, b) == a.start_pos < b.end_pos /\ b.start_pos < a.end_pos

\* C1: the list _remove_overlapping_detections returns is sorted by start ascending
\* and no two of its spans overlap, for every list of spans it is given.
C1_ResolvedSortedDisjoint ==
  resolver.pc = "done" =>
    /\ \A k \in 1..(Len(resolver.output) - 1) :
         resolver.output[k].start_pos <= resolver.output[k + 1].start_pos
    /\ \A i, j \in 1..Len(resolver.output) :
         i # j => ~SpansOverlap(resolver.output[i], resolver.output[j])

\* C1's case: three spans of the three methods, out of order, one of them within
\* another, resolved to two spans.
C1_Witness ==
  /\ resolver.pc = "done"
  /\ Len(resolver.input) = 3
  /\ {resolver.input[k].detection_method : k \in 1..3} = Methods
  /\ resolver.input[1].start_pos > resolver.input[3].start_pos
  /\ \E i, j \in 1..3 :
       /\ i # j
       /\ resolver.input[i].start_pos <= resolver.input[j].start_pos
       /\ resolver.input[j].end_pos <= resolver.input[i].end_pos
  /\ Len(resolver.output) = 2

\* the payment-card groups of the texts: four blocks of four digits, separated by
\* "-", by a space or by nothing
CardGroups ==
  { <<"4","1","1","1","-","1","1","1","1","-","1","1","1","1","-","1","1","1","1">>,
    <<"4","1","1","1"," ","1","1","1","1"," ","1","1","1","1"," ","1","1","1","1">>,
    <<"4","1","1","1","1","1","1","1","1","1","1","1","1","1","1","1">> }
\* the runs of four digits of those groups
CardRuns == { <<"4","1","1","1">>, <<"1","4","1","1">>, <<"1","1","4","1">>,
              <<"1","1","1","4">>, <<"1","1","1","1">> }

\* C2: when the text of an invocation holds a payment-card group, the masked text
\* holds the redaction marker and no run of four digits of the group (stated with
\* no recognizer loaded, where the patterns and the name lists decide alone).
C2_CardGroupRedacted ==
  \A c \in Calls :
    (call[c].pc # "idle" /\ nlp = "none" /\ \E g \in CardGroups : Contains(call[c].text, g)) =>
      /\ Contains(call[c].masked_text, REDACTED)
      /\ \A r \in CardRuns : ~Contains(call[c].masked_text, r)

\* C3: with no recognizer loaded, detect_pii on the text of the test that names
\* Suresh returns three spans that do not overlap: a name of the name lists, a
\* phone of the patterns and a payment card of the patterns.
C3_SureshThreeSpans ==
  \A c \in Calls :
    (call[c].pc # "idle" /\ call[c].text = TestSuresh /\ nlp = "none") =>
      /\ Len(call[c].detected_pii) = 3
      /\ \A i, j \in 1..Len(call[c].detected_pii) :
           i # j => ~SpansOverlap(call[c].detected_pii[i], call[c].detected_pii[j])
      /\ [k \in 1..3 |-> <<call[c].detected_pii[k].pii_type,
                           call[c].detected_pii[k].detection_method>>]
           = << <<"indian_name", "name_pattern">>, <<"phone", "regex">>,
                <<"credit_card", "regex">> >>

\* C4: the masked text of an invocation holds every key of its token map, the keys
\* are pairwise distinct, and they stand in the masked text in the order of their
\* spans in the text (stated with no recognizer loaded).
C4_TokensInMaskedText ==
  \A c \in Calls :
    (call[c].pc # "idle" /\ nlp = "none") =>
      /\ \A k \in 1..Len(call[c].detected_pii) :
           Contains(call[c].masked_text, call[c].detected_pii[k].token)
      /\ \A i, j \in 1..Len(call[c].detected_pii) :
           i < j => /\ call[c].detected_pii[i].token # call[c].detected_pii[j].token
                    /\ Find(call[c].masked_text, call[c].detected_pii[i].token)
                         < Find(call[c].masked_text, call[c].detected_pii[j].token)
      /\ {call[c].pii_map[k].key : k \in 1..Len(call[c].pii_map)}
           = {call[c].detected_pii[k].token : k \in 1..Len(call[c].detected_pii)}

\* C5: of two overlapping spans of different methods the resolver returns exactly
\* the one of higher priority (regex over ner over name_pattern), in either order
\* of the list and whichever starts first.
C5_HigherPriorityKept ==
  (/\ resolver.pc = "done"
   /\ Len(resolver.input) = 2
   /\ SpansOverlap(resolver.input[1], resolver.input[2])
   /\ resolver.input[1].detection_method # resolver.input[2].detection_method) =>
    LET rank == [m \in Methods |-> IF m = "regex" THEN 3 ELSE IF m = "ner" THEN 2 ELSE 1]
        best == IF rank[resolver.input[1].detection_method]
                     > rank[resolver.input[2].detection_method]
                  THEN resolver.input[1] ELSE resolver.input[2]
    IN  resolver.output = <<best>>

\* C5's case: the span of lower priority starts first and stands first in the list,
\* and the later span of the patterns replaces it.
C5_Witness ==
  /\ resolver.pc = "done"
  /\ Len(resolver.input) = 2
  /\ resolver.input[1].detection_method = "ner"
  /\ resolver.input[2].detection_method = "regex"
  /\ resolver.input[1].start_pos < resolver.input[2].start_pos
  /\ SpansOverlap(resolver.input[1], resolver.input[2])
  /\ resolver.output = <<resolver.input[2]>>

C7_FailOpen ==
  [][\A c \in Calls :
       /\ (call[c].pc = "cache_set_map" /\ call'[c] # call[c]) =>
            /\ call'[c].pc = "cache_set_audit"
            /\ ~up => store' = store
       /\ (call[c].pc = "cache_set_audit" /\ call'[c] # call[c]) =>
            /\ call'[c].pc = "returned"
            /\ call'[c].result.masked_text = call[c].masked_text
            /\ call'[c].result.session_id = call[c].session_id
            /\ call'[c].result.pii_count = Len(call[c].detected_pii)
            /\ Len(call'[c].result.pii_detected) = Len(call[c].detected_pii)
            /\ ~up => store' = store]_vars

\* C7's case: an invocation that found PII has returned and the store holds neither
\* its token map nor its audit record.
C7_Witness ==
  /\ call[1].pc = "returned"
  /\ call[1].pii_map # <<>>
  /\ call[1].result.masked_text = call[1].masked_text
  /\ <<"pii_map", 1>> \notin DOMAIN store
  /\ <<"pii_audit", 1>> \notin DOMAIN store

C9_ReturnsOnlyMasked ==
  \A c \in Calls :
    call[c].pc = "returned" =>
      DOMAIN call[c].result = {"masked_text", "session_id", "pii_detected", "pii_count"}

\* text with every occurrence of a key of items replaced by its masked_value, in one
\* pass from the left
RECURSIVE Substituted(_, _, _)
Substituted(text, pos, items) ==
  LET IsAt(i, k) == Slice(text, i, i + Len(items[k].key)) = items[k].key
      hits == {i \in pos..Len(text) : \E k \in 1..Len(items) : IsAt(i, k)}
  IN  IF hits = {} THEN Slice(text, pos, Len(text))
      ELSE LET i == SetMin(hits)
               k == CHOOSE k \in 1..Len(items) : IsAt(i, k)
           IN  Slice(text, pos, i) \o items[k].value.masked_value
                 \o Substituted(text, i + Len(items[k].key), items)

C11_NoPIIUnchanged ==
  \A c \in Calls :
    (call[c].pc = "returned" /\ call[c].detected_pii = <<>>) =>
      /\ call[c].result.pii_count = 0
      /\ call[c].result.pii_detected = <<>>
      /\ call[c].result.masked_text = call[c].text

\* C11's case: a text of several words, with capitals and punctuation and a word
\* that only begins like a name, has come back with no detection.
C11_Witness ==
  /\ call[1].pc = "returned"
  /\ call[1].text = <<"C","a","l","l"," ","s","u","r","e","s","h","o","t"," ">>
  /\ call[1].detected_pii = <<>>
  /\ call[1].result.masked_text = call[1].text

\* "+91-8765432109"
PhoneWithCode == <<"+","9","1","-","8","7","6","5","4","3","2","1","0","9">>

\* C12: for the text of an invocation that has returned, the masked value of every
\* phone match of the patterns is the fixed mask
\* "****-****-" followed by the last four digits of the match, after "+91-" exactly
\* when the match began with +91, so that no other digit of the number is left; and
\* "+91-8765432109" is detected as a phone whose masked value ends in 2109.
C12_PhoneKeepsLastFour ==
  \A c \in Calls :
    call[c].pc = "returned" =>
      /\ LET matches == detect_pii_regex(call[c].text)
         IN  \A k \in 1..Len(matches) :
               LET d == matches[k]
                   digits == SelectSeq(d.value, LAMBDA ch : ch \in Digits)
                   last4 == SubSeq(digits, Len(digits) - 3, Len(digits))
                   mask == <<"*","*","*","*","-","*","*","*","*","-">>
               IN  d.pii_type = "phone" =>
                     /\ Len(digits) >= 10
                     /\ d.masked_value =
                          (IF SubSeq(d.value, 1, 3) = <<"+","9","1">>
                             THEN <<"+","9","1","-">> ELSE <<>>) \o mask \o last4
      /\ call[c].text = PhoneWithCode =>
           /\ Len(call[c].detected_pii) = 1
           /\ call[c].detected_pii[1].pii_type = "phone"
           /\ Len(call[c].detected_pii[1].masked_value) = 18
           /\ SubSeq(call[c].detected_pii[1].masked_value, 15, 18) = <<"2","1","0","9">>

\* C12's case: a number with the country code followed by one with a leading 0, the
\* first masked with its code kept and the second without a code.
C12_Witness ==
  /\ call[1].pc = "returned"
  /\ Len(call[1].detected_pii) = 2
  /\ call[1].detected_pii[1].pii_type = "phone"
  /\ call[1].detected_pii[1].value = PhoneWithCode
  /\ call[1].detected_pii[1].masked_value
       = <<"+","9","1","-","*","*","*","*","-","*","*","*","*","-","2","1","0","9">>
  /\ call[1].detected_pii[2].pii_type = "phone"
  /\ call[1].detected_pii[2].value = <<"0","8","7","6","5","4","3","2","1","0","9">>
  /\ call[1].detected_pii[2].masked_value
       = <<"*","*","*","*","-","*","*","*","*","-","2","1","0","9">>

\* C13: the masked value of every email match of the patterns begins with the first
\* character of the local part and ends with "@" and the whole domain, whatever the
\* length of the local part.
C13_EmailKeepsFirstAndDomain ==
  \A c \in Calls :
    call[c].pc # "idle" =>
      \A k \in 1..Len(detect_pii_regex(call[c].text)) :
        LET d == detect_pii_regex(call[c].text)[k]
            at == CHOOSE i \in 1..Len(d.value) : d.value[i] = "@"
            tail == SubSeq(d.value, at, Len(d.value))
            m == d.masked_value
        IN  d.pii_type = "email" =>
              /\ m[1] = d.value[1]
              /\ Len(m) >= Len(tail) + 1
              /\ SubSeq(m, Len(m) - Len(tail) + 1, Len(m)) = tail

\* what the three detectors of detect_pii produce on a text, before the resolver
AllDetections(n, text) ==
  detect_pii_regex(text) \o detect_pii_ner(n, text) \o detect_indian_names(text)

\* C14: in an invocation that has returned, the tokens of the spans of all
\* detectors are pairwise distinct, and the token map has one entry for each
\* resolved span.
C14_TokensDistinct ==
  \A c \in Calls :
    call[c].pc = "returned" =>
      /\ LET all == AllDetections(nlp, call[c].text)
         IN  \A i, j \in 1..Len(all) : i # j => all[i].token # all[j].token
      /\ Len(call[c].pii_map) = Len(call[c].detected_pii)
      /\ \A k \in 1..Len(call[c].detected_pii) :
           \E e \in 1..Len(call[c].pii_map) :
             /\ call[c].pii_map[e].key = call[c].detected_pii[k].token
             /\ call[c].pii_map[e].value.position.tuple
                  = <<call[c].detected_pii[k].start_pos, call[c].detected_pii[k].end_pos>>

\* C14's case: the three detectors all find spans in the text that names Suresh,
\* the recognizer and the name lists the same word, and the map has three entries.
C14_Witness ==
  /\ call[1].pc = "returned"
  /\ call[1].text = TestSuresh
  /\ nlp = "en_core_web_sm"
  /\ Len(detect_pii_regex(TestSuresh)) = 3
  /\ Len(detect_pii_ner(nlp, TestSuresh)) = 1
  /\ Len(detect_indian_names(TestSuresh)) = 1
  /\ Len(call[1].pii_map) = 3

\* C15: the token of every span of the pattern detector is [CATEGORY_MASKED_n] with
\* n the number of spans of the same category detected before it in the invocation,
\* whatever was detected in other categories.
C15_OrdinalPerCategory ==
  \A c \in Calls :
    call[c].pc # "idle" =>
      LET matches == detect_pii_regex(call[c].text)
      IN  \A k \in 1..Len(matches) :
            matches[k].token
              = RegexToken(matches[k].pii_type,
                           Cardinality({j \in 1..(k - 1) :
                                          matches[j].pii_type = matches[k].pii_type}))

\* C16: the spans the name lists give for the words of a text lie at pairwise
\* distinct positions, each on an occurrence of its name that stands as a word of
\* its own (after whitespace or at the start of the text).
C16_RepeatedNamesOwnOffsets ==
  \A c \in Calls :
    call[c].pc # "idle" =>
      LET names == detect_indian_names(call[c].text)
      IN  /\ \A i, j \in 1..Len(names) :
                i # j => names[i].start_pos # names[j].start_pos
          /\ \A k \in 1..Len(names) :
                StrLower(Slice(call[c].text, names[k].start_pos, names[k].end_pos))
                  = names[k].value

\* C18: an invocation on malformed input, the empty text or a value that is not a
\* text, raises no error and has an empty list of detections and the count 0.
C18_MalformedInputNoError ==
  \A c \in Calls :
    (call[c].pc # "idle" /\ (call[c].arg # "str" \/ call[c].text = <<>>)) =>
      /\ call[c].pc # "raised"
      /\ call[c].detected_pii = <<>>
      /\ call[c].pc = "returned" /\ call[c].result.pii_count = 0

\* C19: once an invocation on a text has returned, the store having answered all
\* along, the store holds the token map and the audit record of its session, also
\* when the text held no PII.
C19_OneMapOneAuditPerCall ==
  \A c \in Calls :
    (call[c].pc = "returned" /\ up /\ ticks = 0) =>
      /\ <<"pii_map", call[c].session_id>> \in DOMAIN store
      /\ <<"pii_audit", call[c].session_id>> \in DOMAIN store

\* C20: a token map enters the store with one hour to live and an audit record with
\* twenty-four; a key leaves the store only when its time has run out and is absent
\* from then on; and unmask_response for a session whose token map is absent
\* returns its text unchanged.
C20_MapOneHourAuditOneDay ==
  [][/\ \A key \in DOMAIN store' :
          /\ store'[key].expires > now'
          /\ key \notin DOMAIN store =>
               store'[key].expires
                 = now + (IF key[1] = "pii_map" THEN 3600 ELSE 24 * 3600)
     /\ \A key \in DOMAIN store :
          key \notin DOMAIN store' => now' >= store[key].expires
     /\ (unmask = NoUnmask /\ unmask' # NoUnmask
           /\ <<"pii_map", unmask'.session_id>> \notin DOMAIN store) =>
          unmask'.result = unmask'.masked_text]_vars

\* C20's case: an hour after the writes the token map of the session is gone and
\* its audit record still there, and a reply with its tokens has come back
\* unchanged.
C20_Witness ==
  /\ call[1].pc = "returned"
  /\ call[1].text = TextPhone
  /\ now = TTL_MAP
  /\ <<"pii_map", 1>> \notin DOMAIN store
  /\ <<"pii_audit", 1>> \in DOMAIN store
  /\ store[<<"pii_audit", 1>>].expires = TTL_AUDIT
  /\ unmask.at = TTL_MAP
  /\ unmask.session_id = 1
  /\ unmask.masked_text = ProbeReply
  /\ unmask.result = ProbeReply

\* C17: an invocation that awaits a write to the store eventually returns.
C17_EventuallyReturns ==
  \A c \in Calls :
    (call[c].pc \in {"cache_set_map", "cache_set_audit"}) ~> (call[c].pc = "returned")


C22_OutputRespectsPriority ==
  resolver.pc = "done" =>
    \A i \in 1..Len(resolver.output), j \in 1..Len(resolver.input) :
      SpansOverlap(resolver.output[i], resolver.input[j]) =>
        method_priority(resolver.input[j].detection_method)
          <= method_priority(resolver.output[i].detection_method)


\* C23: for every list of spans, every span of the input is in the resolver's
\* output or overlaps a span of the output.
C23_OutputCoversInput ==
  resolver.pc = "done" =>
    \A j \in 1..Len(resolver.input) :
      \E i \in 1..Len(resolver.output) :
        \/ resolver.output[i] = resolver.input[j]
        \/ SpansOverlap(resolver.output[i], resolver.input[j])


\* the orders a list of n elements can be given in
Orders(n) == {p \in [1..n -> 1..n] : \A i, j \in 1..n : p[i] = p[j] => i = j}
\* the spans of a list, as offsets and method
SpanSet(xs) == {<<xs[k].start_pos, xs[k].end_pos, xs[k].detection_method>> : k \in 1..Len(xs)}

\* C24: for every list of spans and every order the list can be given in, the
\* resolver returns the same set of spans.
C24_OrderIndependent ==
  resolver.pc = "done" =>
    \A p \in Orders(Len(resolver.input)) :
      SpanSet(_remove_overlapping_detections([k \in 1..Len(resolver.input) |-> resolver.input[p[k]]]))
        = SpanSet(resolver.output)


\* C25: of two overlapping spans of the same method the resolver returns the one
\* with the smaller start and, for equal starts, the one that comes first in the
\* list, whatever their lengths; and in a list of any length a span that overlaps
\* an accepted span of its own priority leaves the accepted spans as they are.
C25_SamePriorityFirstWins ==
  resolver.pc = "done" =>
    /\ (/\ Len(resolver.input) = 2
        /\ SpansOverlap(resolver.input[1], resolver.input[2])
        /\ resolver.input[1].detection_method = resolver.input[2].detection_method) =>
         resolver.output = << IF resolver.input[2].start_pos < resolver.input[1].start_pos
                                THEN resolver.input[2] ELSE resolver.input[1] >>
    /\ LET sorted == SortedByStart(resolver.input)
       IN  \A k \in 1..Len(sorted) :
             LET before == ResolveLoop(SubSeq(sorted, 1, k - 1), <<>>)
             IN  (\E i \in 1..Len(before) :
                    /\ SpansOverlap(before[i], sorted[k])
                    /\ before[i].detection_method = sorted[k].detection_method) =>
                   ResolveLoop(SubSeq(sorted, 1, k), <<>>) = before

\* C25's case: two spans of the patterns start at the same offset, the second of
\* the list is the longer one, and the resolver returns the first.
C25_Witness ==
  /\ resolver.pc = "done"
  /\ Len(resolver.input) = 2
  /\ resolver.input[1].detection_method = "regex"
  /\ resolver.input[2].detection_method = "regex"
  /\ resolver.input[1].start_pos = resolver.input[2].start_pos
  /\ resolver.input[1].end_pos < resolver.input[2].end_pos
  /\ resolver.output = <<resolver.input[1]>>


\* the reference substitution: text from offset pos on, read from the left, with
\* the region of every span of spans replaced by the span's masked_value
RECURSIVE LeftToRight(_, _, _)
LeftToRight(text, pos, spans) ==
  LET ahead == {k \in 1..Len(spans) : spans[k].start_pos >= pos}
  IN  IF ahead = {} THEN Slice(text, pos, Len(text))
      ELSE LET k == CHOOSE i \in ahead : \A j \in ahead : spans[i].start_pos <= spans[j].start_pos
           IN  Slice(text, pos, spans[k].start_pos) \o spans[k].masked_value
                 \o LeftToRight(text, spans[k].end_pos, spans)

\* C26: for a text and a list, in any order, of spans within the text of which no
\* two overlap, mask_text returns the text with the region of each span replaced by
\* its masked_value and every other character kept in place: what the substitution
\* from the left gives.
C26_MaskEqualsLeftToRight ==
  masking.pc = "done" =>
    masking.masked_text = LeftToRight(masking.text, 0, masking.detected_pii)

\* C26's case: a list that gives an earlier span before a later one, the earlier
\* with a masked value that is not as long as its region, and a character of the
\* text outside every span.
C26_Witness ==
  /\ masking.pc = "done"
  /\ Len(masking.detected_pii) >= 2
  /\ \E i, j \in 1..Len(masking.detected_pii) :
       /\ i < j
       /\ masking.detected_pii[i].start_pos < masking.detected_pii[j].start_pos
       /\ Len(masking.detected_pii[i].masked_value) # Len(masking.detected_pii[j].masked_value)
       /\ Len(masking.detected_pii[i].masked_value)
            # masking.detected_pii[i].end_pos - masking.detected_pii[i].start_pos
  /\ \E i \in 0..(Len(masking.text) - 1) :
       \A k \in 1..Len(masking.detected_pii) :
         i < masking.detected_pii[k].start_pos \/ i >= masking.detected_pii[k].end_pos
  /\ masking.masked_text # masking.text


\* the whitespace-delimited tokens of text from offset pos on that are names of the
\* name lists once '.,!?;:' is stripped from their ends, each as the offsets of its
\* stripped characters in text
RECURSIVE NameTokensFrom(_, _)
NameTokensFrom(text, pos) ==
  LET starts == {i \in pos..(Len(text) - 1) : At(text, i) \notin SpaceChars}
  IN  IF starts = {} THEN <<>>
      ELSE LET s == SetMin(starts)
               e == SetMin({j \in (s + 1)..Len(text) : j = Len(text) \/ At(text, j) \in SpaceChars})
               keep == {i \in s..(e - 1) : At(text, i) \notin StripChars}
           IN  (IF keep # {} /\ StrLower(Slice(text, SetMin(keep), SetMax(keep) + 1))
                                  \in indian_names_male \cup indian_names_female
                  THEN << <<SetMin(keep), SetMax(keep) + 1>> >>
                  ELSE <<>>)
                 \o NameTokensFrom(text, e)

\* C27: the spans detect_indian_names gives for a text are, in order, the offsets
\* of the whitespace-delimited tokens that are names of the name lists, each
\* without the punctuation at its ends.
C27_NameSpansAtTheirTokens ==
  \A c \in Calls :
    (call[c].pc # "idle" /\ call[c].arg = "str") =>
      LET names == detect_indian_names(call[c].text)
      IN  [k \in 1..Len(names) |-> <<names[k].start_pos, names[k].end_pos>>]
            = NameTokensFrom(call[c].text, 0)


\* the detections of a list that the patterns gave
OfPatterns(detections) ==
  LET ByRegex(d) == d.detection_method = "regex"
  IN  SelectSeq(detections, ByRegex)

\* C28: the spans of the patterns that detect_pii returned to an invocation for its
\* text are those the
\* resolver returns for the pattern spans alone, whatever the recognizer and the
\* name lists add; and with no recognizer loaded detect_pii_ner returns the empty
\* list and detect_pii returns the resolution of the pattern and name spans.
C28_SemanticStageAdditive ==
  \A c \in Calls :
    call[c].pc = "returned" =>
      LET regex == detect_pii_regex(call[c].text)
          names == detect_indian_names(call[c].text)
          ner == detect_pii_ner(nlp, call[c].text)
      IN  /\ OfPatterns(call[c].detected_pii) = _remove_overlapping_detections(regex)
          /\ nlp = "none" =>
               /\ ner = <<>>
               /\ call[c].detected_pii = _remove_overlapping_detections(regex \o names)

\* C28's case: a recognizer is loaded and gives a span that overlaps a span of the
\* patterns, and detect_pii returns spans of the patterns and of the recognizer.
C28_Witness ==
  /\ nlp # "none"
  /\ call[1].pc = "returned"
  /\ \E i, j \in 1..Len(call[1].detected_pii) :
       /\ call[1].detected_pii[i].detection_method = "regex"
       /\ call[1].detected_pii[j].detection_method = "ner"
  /\ LET ner == detect_pii_ner(nlp, call[1].text)
     IN  \E i \in 1..Len(call[1].detected_pii), j \in 1..Len(ner) :
           /\ call[1].detected_pii[i].detection_method = "regex"
           /\ SpansOverlap(call[1].detected_pii[i], ner[j])


\* C29: unmask_response(t, s), called when the store holds no token map of session
\* s or does not answer the read, returns t as it was given and leaves the store as
\* it was.
C29_NoMapUnmaskReturnsArgument ==
  [][(/\ unmask = NoUnmask
      /\ unmask' # NoUnmask
      /\ (~up \/ <<"pii_map", unmask'.session_id>> \notin DOMAIN store)) =>
       /\ ~unmask'.pii_map.found
       /\ unmask'.result = unmask'.masked_text
       /\ store' = store]_vars

\* C29's case: the invocation of session 1 has returned and its audit record is in
\* the store, its token map is not (it has expired or its write failed), and the
\* reply that names its phone token comes back from unmask_response as it was.
C29_Witness ==
  /\ call[1].pc = "returned"
  /\ call[1].text = TextPhone
  /\ <<"pii_audit", 1>> \in DOMAIN store
  /\ <<"pii_map", 1>> \notin DOMAIN store
  /\ unmask.session_id = 1
  /\ unmask.at = now
  /\ unmask.masked_text = ProbeReply
  /\ ~unmask.pii_map.found
  /\ unmask.result = ProbeReply


\* what every placeholder token holds
TokenMark == <<"_","M","A","S","K","E","D","_">>

\* C30: for a text that holds no placeholder token, unmask_response on the masked
\* text and the session identifier that process_user_input returned for it returns
\* that masked text.
C30_UnmaskOfOwnOutputIsIdentity ==
  \A c \in Calls :
    (/\ call[c].pc = "returned"
     /\ ~Contains(call[c].text, TokenMark)
     /\ unmask # NoUnmask
     /\ unmask.session_id = call[c].session_id
     /\ unmask.masked_text = call[c].masked_text) =>
      unmask.result = call[c].masked_text

\* C30's case: the text held a name and a number of a pattern, the token map of
\* the session was read from the store, and the masked text, which differs from
\* the text, came back from unmask_response as it was.
C30_Witness ==
  /\ call[1].pc = "returned"
  /\ ~Contains(call[1].text, TokenMark)
  /\ \E i, j \in 1..Len(call[1].detected_pii) :
       /\ call[1].detected_pii[i].detection_method = "regex"
       /\ call[1].detected_pii[j].detection_method = "name_pattern"
  /\ unmask.session_id = call[1].session_id
  /\ unmask.masked_text = call[1].masked_text
  /\ unmask.pii_map.found
  /\ Len(unmask.pii_map.value) >= 2
  /\ unmask.result = call[1].masked_text
  /\ unmask.result # call[1].text

=============================================================================
